---- MODULE Spec2Model ----
(***************************************************************************)
(* FetcherService (src/services/FetcherService.ts): the request/response   *)
(* pipeline of Rettiwt-API.  The module holds two specifications:          *)
(*   Spec    the asynchronous fetch/post pipeline, NumCalls concurrent     *)
(*           calls on one FetcherService;                                  *)
(*   SpecFn  the synchronous functions handleHTTPError, extractData and    *)
(*           findByFilter applied to inputs drawn from bounded sets.       *)
(***************************************************************************)
EXTENDS Integers, Sequences, FiniteSets, TLC

(***************************************************************************)
(* Bounds                                                                  *)
(***************************************************************************)
NumCalls == 2       \* concurrent fetch/post calls on the service
MaxNodes == 3       \* object/array nodes of a generated response body

(***************************************************************************)
(* JSON values (the `data` of an AxiosResponse).  Every value is a record  *)
(* [t, s, n, kids]: t is the JavaScript type, s the payload of a string,   *)
(* n the payload of a number or boolean, kids the ordered fields of an     *)
(* object (key k, value v) or the elements of an array.                    *)
(***************************************************************************)
Str(s) == [t |-> "string", s |-> s, n |-> 0, kids |-> <<>>]
Num(n) == [t |-> "number", s |-> "", n |-> n, kids |-> <<>>]
Bool(b) == [t |-> "boolean", s |-> "", n |-> IF b THEN 1 ELSE 0, kids |-> <<>>]
Null == [t |-> "null", s |-> "", n |-> 0, kids |-> <<>>]
Undefined == [t |-> "undefined", s |-> "", n |-> 0, kids |-> <<>>]
Fld(k, v) == [k |-> k, v |-> v]
Obj(fields) == [t |-> "object", s |-> "", n |-> 0, kids |-> fields]
Arr(elems) ==
    [t |-> "array", s |-> "", n |-> 0,
     kids |-> [i \in DOMAIN elems |-> Fld("", elems[i])]]

\* node[key] in JavaScript: the field's value, undefined when there is none
Get(node, key) ==
    IF node.t = "object" /\ \E i \in DOMAIN node.kids : node.kids[i].k = key
    THEN node.kids[CHOOSE i \in DOMAIN node.kids : node.kids[i].k = key].v
    ELSE Undefined

\* variant: only null and undefined count as absent (`res.data != null`)
ToBoolean_nullish(v) == v.t \notin {"null", "undefined"}

\* `x ? true : false` : JavaScript truthiness of a value
ToBoolean(v) ==
    CASE v.t = "string"    -> v.s # ""
      [] v.t = "number"    -> v.n # 0
      [] v.t = "boolean"   -> v.n = 1
      [] v.t = "null"      -> FALSE
      [] v.t = "undefined" -> FALSE
      [] OTHER             -> TRUE

(***************************************************************************)
(* Tree Extractor (helper/JsonUtils.findByFilter)                          *)
(***************************************************************************)
\* variant: a matched node is emitted and not searched any further
RECURSIVE findByFilter_stopAtMatch(_, _, _), findInKids_stopAtMatch(_, _, _, _)
findInKids_stopAtMatch(kids, i, key, value) ==
    IF i > Len(kids) THEN <<>>
    ELSE findByFilter_stopAtMatch(kids[i].v, key, value)
         \o findInKids_stopAtMatch(kids, i + 1, key, value)

findByFilter_stopAtMatch(data, key, value) ==
    IF data.t = "array" THEN findInKids_stopAtMatch(data.kids, 1, key, value)
    ELSE IF data.t = "object"
    THEN (IF Get(data, key) = Str(value) THEN <<data>>
          ELSE findInKids_stopAtMatch(data.kids, 1, key, value))
    ELSE <<>>

RECURSIVE findByFilter(_, _, _), findInKids(_, _, _, _)
findInKids(kids, i, key, value) ==
    IF i > Len(kids) THEN <<>>
    ELSE findByFilter(kids[i].v, key, value)
         \o findInKids(kids, i + 1, key, value)

findByFilter(data, key, value) ==
    IF data.t = "array" THEN findInKids(data.kids, 1, key, value)
    ELSE IF data.t = "object"
    THEN (IF Get(data, key) = Str(value) THEN <<data>> ELSE <<>>)
         \o findInKids(data.kids, 1, key, value)
    ELSE <<>>

(***************************************************************************)
(* Response Normalizer                                                     *)
(***************************************************************************)
EResourceType ==
    {"TWEET_DETAILS", "TWEET_SEARCH", "USER_LIKES",
     "TWEET_RETWEETERS", "USER_DETAILS", "USER_FOLLOWING", "CREATE_TWEET"}

CursoredData(list, next) == [list |-> list, next |-> next]

\* variant: the discriminator follows the prefix of the kind's name
extractData_byPrefix(data, type) ==
    LET disc == IF \/ type = "TWEET_DETAILS"
                   \/ type = "TWEET_SEARCH"
                   \/ type = "TWEET_RETWEETERS"
                THEN "Tweet" ELSE "User"
        required == findByFilter(data, "__typename", disc)
        cursors == findByFilter(data, "cursorType", "Bottom")
        next == IF Len(cursors) >= 1 THEN Get(cursors[1], "value") ELSE Undefined
    IN  [ret |-> CursoredData(required, next),
         calls |-> << [key |-> "__typename", value |-> disc, found |-> required],
                      [key |-> "cursorType", value |-> "Bottom", found |-> cursors] >>]

\* variant: the cursor is taken from the last 'Bottom' node
extractData_lastCursor(data, type) ==
    LET disc == IF \/ type = "TWEET_DETAILS"
                   \/ type = "TWEET_SEARCH"
                   \/ type = "USER_LIKES"
                THEN "Tweet" ELSE "User"
        required == findByFilter(data, "__typename", disc)
        cursors == findByFilter(data, "cursorType", "Bottom")
        next == IF Len(cursors) >= 1 THEN Get(cursors[Len(cursors)], "value")
                ELSE Undefined
    IN  [ret |-> CursoredData(required, next),
         calls |-> << [key |-> "__typename", value |-> disc, found |-> required],
                      [key |-> "cursorType", value |-> "Bottom", found |-> cursors] >>]

\* variant: entity nodes without a rest_id are dropped
extractData_validated(data, type) ==
    LET disc == IF \/ type = "TWEET_DETAILS"
                   \/ type = "TWEET_SEARCH"
                   \/ type = "USER_LIKES"
                THEN "Tweet" ELSE "User"
        required == findByFilter(data, "__typename", disc)
        HasId(x) == Get(x, "rest_id") # Undefined
        cursors == findByFilter(data, "cursorType", "Bottom")
        next == IF Len(cursors) >= 1 THEN Get(cursors[1], "value") ELSE Undefined
    IN  [ret |-> CursoredData(SelectSeq(required, HasId), next),
         calls |-> << [key |-> "__typename", value |-> disc, found |-> required],
                      [key |-> "cursorType", value |-> "Bottom", found |-> cursors] >>]

\* extractData: ret is the CursoredData returned, calls the findByFilter
\* invocations made on the way, in order, each with what it returned
extractData(data, type) ==
    LET disc == IF \/ type = "TWEET_DETAILS"
                   \/ type = "TWEET_SEARCH"
                   \/ type = "USER_LIKES"
                THEN "Tweet" ELSE "User"
        required == findByFilter(data, "__typename", disc)
        cursors == findByFilter(data, "cursorType", "Bottom")
        next == IF Len(cursors) >= 1 THEN Get(cursors[1], "value") ELSE Undefined
    IN  [ret |-> CursoredData(required, next),
         calls |-> << [key |-> "__typename", value |-> disc, found |-> required],
                      [key |-> "cursorType", value |-> "Bottom", found |-> cursors] >>]

(***************************************************************************)
(* Status Classifier                                                       *)
(***************************************************************************)
OK == 200

\* enums/HTTP.EHttpStatus: status code -> name.  StatusTables holds the
\* table with and without an entry for the success code.
ErrorTable ==
    (400 :> "BAD_REQUEST") @@ (401 :> "UNAUTHORIZED") @@ (403 :> "FORBIDDEN")
    @@ (404 :> "NOT_FOUND") @@ (429 :> "TOO_MANY_REQUESTS")
    @@ (500 :> "INTERNAL_SERVER_ERROR") @@ (503 :> "SERVICE_UNAVAILABLE")
StatusTables == {ErrorTable, ErrorTable @@ (200 :> "OK")}

Response(status, data) == [status |-> status, data |-> data]
NoResponse == Response(0, Undefined)

\* variant: the failure carries the numeric code instead of the table's entry
handleHTTPError_rawCode(res, table) ==
    IF res.status # OK /\ res.status \in DOMAIN table
    THEN [threw |-> TRUE, message |-> ToString(res.status), value |-> NoResponse]
    ELSE [threw |-> FALSE, message |-> "", value |-> res]

\* variant: the success code is not exempted from the table lookup
handleHTTPError_noOkGuard(res, table) ==
    IF res.status \in DOMAIN table
    THEN [threw |-> TRUE, message |-> table[res.status], value |-> NoResponse]
    ELSE [threw |-> FALSE, message |-> "", value |-> res]

\* handleHTTPError(res), with the EHttpStatus table in scope
handleHTTPError(res, table) ==
    IF res.status # OK /\ res.status \in DOMAIN table
    THEN [threw |-> TRUE, message |-> table[res.status], value |-> NoResponse]
    ELSE [threw |-> FALSE, message |-> "", value |-> res]

(***************************************************************************)
(* Inputs                                                                  *)
(***************************************************************************)
\* Response bodies: the two examples of the specification in one timeline
TimelineBody ==
    Obj(<< Fld("a", Obj(<<Fld("__typename", Str("Tweet")), Fld("id", Num(1))>>)),
           Fld("b", Arr(<< Obj(<<Fld("__typename", Str("User")), Fld("id", Num(2))>>),
                           Obj(<<Fld("__typename", Str("Tweet")), Fld("id", Num(3))>>) >>)),
           Fld("c", Arr(<< Obj(<<Fld("cursorType", Str("Top")), Fld("value", Str("X"))>>),
                           Obj(<<Fld("cursorType", Str("Bottom")), Fld("value", Str("Y"))>>) >>)) >>)

FalsyBodies == {Str(""), Num(0), Null, Bool(FALSE)}
ScalarBodies == FalsyBodies \cup {Str("ok"), Num(1), Bool(TRUE), Undefined}

\* Generated bodies: every ordered tree of at most MaxNodes nodes over Labels
ChildKeys == <<"a", "b", "c", "d", "e", "f">>
AsFields(forest) == [i \in DOMAIN forest |-> Fld(ChildKeys[i], forest[i])]
Labels == {"A", "T1", "T2", "U", "BX", "BY", "PZ"}
Node(label, forest) ==
    CASE label = "A"  -> Arr(forest)
      [] label = "T1" -> Obj(<<Fld("__typename", Str("Tweet")), Fld("rest_id", Str("1"))>>
                             \o AsFields(forest))
      [] label = "T2" -> Obj(<<Fld("__typename", Str("Tweet"))>> \o AsFields(forest))
      [] label = "U"  -> Obj(<<Fld("__typename", Str("User"))>> \o AsFields(forest))
      [] label = "BX" -> Obj(<<Fld("cursorType", Str("Bottom")), Fld("value", Str("X"))>>
                             \o AsFields(forest))
      [] label = "BY" -> Obj(<<Fld("cursorType", Str("Bottom")), Fld("value", Str("Y"))>>
                             \o AsFields(forest))
      [] label = "PZ" -> Obj(<<Fld("cursorType", Str("Top")), Fld("value", Str("Z"))>>
                             \o AsFields(forest))

RECURSIVE TreesOfSize(_), ForestsOfSize(_)
TreesOfSize(n) ==
    IF n = 0 THEN {}
    ELSE {Node(l, f) : l \in Labels, f \in ForestsOfSize(n - 1)}
ForestsOfSize(n) ==
    IF n = 0 THEN {<<>>}
    ELSE UNION {{<<t>> \o f : t \in TreesOfSize(k), f \in ForestsOfSize(n - k)}
                : k \in 1..n}
Trees == UNION {TreesOfSize(n) : n \in 1..MaxNodes}

StatusCodes == {200, 201, 202, 204, 400, 401, 403, 404, 418, 429, 500, 503}
FilterPairs ==
    { <<"__typename", "Tweet">>, <<"__typename", "User">>,
      <<"cursorType", "Bottom">>, <<"value", "X">> }

(***************************************************************************)
(* Request Descriptor (rettiwt-core Request) and credential headers        *)
(***************************************************************************)
FetchKinds == {"TWEET_SEARCH", "USER_DETAILS"}
PostKinds == {"CREATE_TWEET"}
ArgsSet == {"q1"}

Request(resourceType, args) ==
    [url |-> resourceType,
     type |-> IF resourceType \in PostKinds THEN "POST" ELSE "GET",
     payload |-> args]
NoRequest == [url |-> "", type |-> "", payload |-> ""]

Credential == [authToken |-> "bearer", cookies |-> "ct0"]
toHeader(c) == [authorization |-> c.authToken, cookie |-> c.cookies]
NoHeaders == [authorization |-> "", cookie |-> ""]

\* the AxiosRequestConfig that request(config) hands to axios
AxiosRequestConfig(config, credential) ==
    [url |-> config.url, method |-> config.type, data |-> config.payload,
     headers |-> toHeader(credential)]
NoConfig == [url |-> "", method |-> "", data |-> "", headers |-> NoHeaders]

\* What axios can resolve with.  Which statuses resolve rather than reject
\* is decided by axios' validateStatus, which request() leaves at its
\* default (2xx resolves) and which axios.defaults can widen; the classifier
\* is written for any status, so both a 2xx other than 200 (202) and a
\* non-2xx code (404) are let through to it here.
Responses ==
    {Response(OK, b) : b \in FalsyBodies \cup {Str("ok"), TimelineBody}}
    \cup {Response(s, TimelineBody) : s \in {202, 404}}
TransportErrors == {"ECONNABORTED"}

(***************************************************************************)
(* State                                                                   *)
(***************************************************************************)
Calls == 1..NumCalls

VARIABLES
    cred,            \* FetcherService.cred
    EHttpStatus,     \* the status table in scope
    pc,              \* pc[c]: where call c stands
    invocation,      \* invocation[c]: the operation and its arguments
    request,         \* request[c]: the `request` local of fetch/post
    axiosRequest,    \* axiosRequest[c]: the `axiosRequest` local of request()
    res,             \* res[c]: the response axios resolved with
    checked,         \* checked[c]: what handleHTTPError returned
    body,            \* body[c]: the `res` local of fetch (res.data)
    result,          \* result[c]: what the caller of call c got
    transportCalls,  \* transportCalls[c]: axios invocations made for c
    normalizerRuns,  \* normalizerRuns[c]: extractData runs, with their trace
    applied,         \* SpecFn: the function applied and its parameters
    arg,             \* SpecFn: the response the function is applied to
    ret              \* SpecFn: what the function returned

callVars == <<pc, invocation, request, axiosRequest, res, checked, body,
              result, transportCalls, normalizerRuns>>
fnVars == <<applied, arg, ret>>
vars == <<cred, EHttpStatus, callVars, fnVars>>

NoInvocation == [op |-> "", resourceType |-> "", args |-> ""]
NoError == [source |-> "", message |-> ""]
NoData == CursoredData(<<>>, Undefined)
Pending == [tag |-> "pending", data |-> NoData, flag |-> FALSE, error |-> NoError]
Returned(cd) == [tag |-> "value", data |-> cd, flag |-> FALSE, error |-> NoError]
ReturnedFlag(b) == [tag |-> "value", data |-> NoData, flag |-> b, error |-> NoError]
Thrown(source, message) ==
    [tag |-> "error", data |-> NoData, flag |-> FALSE,
     error |-> [source |-> source, message |-> message]]

NotApplied == [fn |-> "none", type |-> "", key |-> "", value |-> ""]

InitCalls ==
    /\ cred = Credential
    /\ pc = [c \in Calls |-> "idle"]
    /\ invocation = [c \in Calls |-> NoInvocation]
    /\ request = [c \in Calls |-> NoRequest]
    /\ axiosRequest = [c \in Calls |-> NoConfig]
    /\ res = [c \in Calls |-> NoResponse]
    /\ checked = [c \in Calls |-> NoResponse]
    /\ body = [c \in Calls |-> Undefined]
    /\ result = [c \in Calls |-> Pending]
    /\ transportCalls = [c \in Calls |-> 0]
    /\ normalizerRuns = [c \in Calls |-> <<>>]

Init ==
    /\ InitCalls
    /\ EHttpStatus = ErrorTable
    /\ applied = NotApplied
    /\ arg = NoResponse
    /\ ret = NoResponse

(***************************************************************************)
(* The pipeline: one action per synchronous stretch of fetch/post          *)
(***************************************************************************)
\* fetch/post up to the axios call: build the Request, build the axios
\* configuration with the credential's headers, hand it to axios
Dispatch(c, op, resourceType, args) ==
    /\ pc[c] = "idle"
    /\ invocation' = [invocation EXCEPT ![c] =
                        [op |-> op, resourceType |-> resourceType, args |-> args]]
    /\ request' = [request EXCEPT ![c] = Request(resourceType, args)]
    /\ axiosRequest' = [axiosRequest EXCEPT ![c] =
                          AxiosRequestConfig(Request(resourceType, args), cred)]
    /\ transportCalls' = [transportCalls EXCEPT ![c] = @ + 1]
    /\ pc' = [pc EXCEPT ![c] = "awaiting"]
    /\ UNCHANGED <<cred, EHttpStatus, res, checked, body, result,
                   normalizerRuns, fnVars>>

fetch(c) ==
    \E resourceType \in FetchKinds, args \in ArgsSet :
        Dispatch(c, "fetch", resourceType, args)

post(c) ==
    \E resourceType \in PostKinds, args \in ArgsSet :
        Dispatch(c, "post", resourceType, args)

\* axios resolves with a response
TransportResolve(c) ==
    /\ pc[c] = "awaiting"
    /\ \E r \in Responses : res' = [res EXCEPT ![c] = r]
    /\ pc' = [pc EXCEPT ![c] = "settled"]
    /\ UNCHANGED <<cred, EHttpStatus, invocation, request, axiosRequest,
                   checked, body, result, transportCalls, normalizerRuns, fnVars>>

\* variant: a rejected request is issued once more
TransportReject_retry(c) ==
    /\ pc[c] = "awaiting"
    /\ IF transportCalls[c] < 2
       THEN /\ transportCalls' = [transportCalls EXCEPT ![c] = @ + 1]
            /\ UNCHANGED <<pc, result>>
       ELSE /\ \E e \in TransportErrors :
                  result' = [result EXCEPT ![c] = Thrown("transport", e)]
            /\ pc' = [pc EXCEPT ![c] = "failed"]
            /\ UNCHANGED transportCalls
    /\ UNCHANGED <<cred, EHttpStatus, invocation, request, axiosRequest, res,
                   checked, body, normalizerRuns, fnVars>>

\* axios rejects: no handler of the chain takes rejections, the call rejects
TransportReject(c) ==
    /\ pc[c] = "awaiting"
    /\ \E e \in TransportErrors :
          result' = [result EXCEPT ![c] = Thrown("transport", e)]
    /\ pc' = [pc EXCEPT ![c] = "failed"]
    /\ UNCHANGED <<cred, EHttpStatus, invocation, request, axiosRequest, res,
                   checked, body, transportCalls, normalizerRuns, fnVars>>

\* variant: the response is kept in one slot shared by all calls
Classify_shared(c) ==
    /\ pc[c] = "settled"
    /\ LET h == handleHTTPError(res[1], EHttpStatus) IN
         IF h.threw
         THEN /\ result' = [result EXCEPT ![c] = Thrown("status", h.message)]
              /\ pc' = [pc EXCEPT ![c] = "failed"]
              /\ UNCHANGED checked
         ELSE /\ checked' = [checked EXCEPT ![c] = h.value]
              /\ pc' = [pc EXCEPT ![c] = "classified"]
              /\ UNCHANGED result
    /\ UNCHANGED <<cred, EHttpStatus, invocation, request, axiosRequest, res,
                   body, transportCalls, normalizerRuns, fnVars>>

\* .then((res) => this.handleHTTPError(res))
Classify(c) ==
    /\ pc[c] = "settled"
    /\ LET h == handleHTTPError(res[c], EHttpStatus) IN
         IF h.threw
         THEN /\ result' = [result EXCEPT ![c] = Thrown("status", h.message)]
              /\ pc' = [pc EXCEPT ![c] = "failed"]
              /\ UNCHANGED checked
         ELSE /\ checked' = [checked EXCEPT ![c] = h.value]
              /\ pc' = [pc EXCEPT ![c] = "classified"]
              /\ UNCHANGED result
    /\ UNCHANGED <<cred, EHttpStatus, invocation, request, axiosRequest, res,
                   body, transportCalls, normalizerRuns, fnVars>>

\* fetch: .then((res) => res.data)
TakeData(c) ==
    /\ pc[c] = "classified"
    /\ invocation[c].op = "fetch"
    /\ body' = [body EXCEPT ![c] = checked[c].data]
    /\ pc' = [pc EXCEPT ![c] = "unwrapped"]
    /\ UNCHANGED <<cred, EHttpStatus, invocation, request, axiosRequest, res,
                   checked, result, transportCalls, normalizerRuns, fnVars>>

\* fetch: extractData on the body, return its result
FetchReturn(c) ==
    /\ pc[c] = "unwrapped"
    /\ LET x == extractData(body[c], invocation[c].resourceType) IN
         /\ normalizerRuns' = [normalizerRuns EXCEPT ![c] = Append(@, x.calls)]
         /\ result' = [result EXCEPT ![c] = Returned(x.ret)]
    /\ pc' = [pc EXCEPT ![c] = "done"]
    /\ UNCHANGED <<cred, EHttpStatus, invocation, request, axiosRequest, res,
                   checked, body, transportCalls, fnVars>>

\* post: return res.data ? true : false
PostReturn(c) ==
    /\ pc[c] = "classified"
    /\ invocation[c].op = "post"
    /\ result' = [result EXCEPT ![c] = ReturnedFlag(ToBoolean(checked[c].data))]
    /\ pc' = [pc EXCEPT ![c] = "done"]
    /\ UNCHANGED <<cred, EHttpStatus, invocation, request, axiosRequest, res,
                   checked, body, transportCalls, normalizerRuns, fnVars>>

Next ==
    \E c \in Calls :
        \/ fetch(c)
        \/ post(c)
        \/ TransportResolve(c)
        \/ TransportReject(c)
        \/ Classify(c)
        \/ TakeData(c)
        \/ FetchReturn(c)
        \/ PostReturn(c)

Spec == Init /\ [][Next]_vars

(***************************************************************************)
(* The synchronous functions on their own                                  *)
(***************************************************************************)
FnInputs ==
    {Response(s, b) : s \in StatusCodes, b \in ScalarBodies \cup {TimelineBody}}
    \cup {Response(OK, b) : b \in Trees}

InitFn ==
    /\ InitCalls
    /\ EHttpStatus \in StatusTables
    /\ applied = NotApplied
    /\ arg \in FnInputs
    /\ ret = NoResponse

ApplyHandleHTTPError ==
    /\ applied.fn = "none"
    /\ applied' = [NotApplied EXCEPT !.fn = "handleHTTPError"]
    /\ ret' = handleHTTPError(arg, EHttpStatus)
    /\ UNCHANGED <<cred, EHttpStatus, callVars, arg>>

ApplyExtractData ==
    /\ applied.fn = "none"
    /\ \E type \in EResourceType :
          /\ applied' = [NotApplied EXCEPT !.fn = "extractData", !.type = type]
          /\ ret' = extractData(arg.data, type)
    /\ UNCHANGED <<cred, EHttpStatus, callVars, arg>>

ApplyFindByFilter ==
    /\ applied.fn = "none"
    /\ \E kv \in FilterPairs :
          /\ applied' = [NotApplied EXCEPT !.fn = "findByFilter",
                                           !.key = kv[1], !.value = kv[2]]
          /\ ret' = findByFilter(arg.data, kv[1], kv[2])
    /\ UNCHANGED <<cred, EHttpStatus, callVars, arg>>

NextFn ==
    \/ ApplyHandleHTTPError
    \/ ApplyExtractData
    \/ ApplyFindByFilter

SpecFn == InitFn /\ [][NextFn]_vars

(***************************************************************************)
(* Reference notions for the properties: the nodes of a tree by path, and  *)
(* depth-first pre-order as an order on paths                              *)
(***************************************************************************)
RECURSIVE PathsOf(_)
PathsOf(v) ==
    {<<>>} \cup UNION {{<<i>> \o p : p \in PathsOf(v.kids[i].v)} : i \in DOMAIN v.kids}

RECURSIVE NodeAt(_, _)
NodeAt(v, p) == IF p = <<>> THEN v ELSE NodeAt(v.kids[Head(p)].v, Tail(p))

\* p is visited before q: p is an ancestor of q, or p branches off to the left
PathBefore(p, q) ==
    LET m == IF Len(p) < Len(q) THEN Len(p) ELSE Len(q)
        diff == {i \in 1..m : p[i] # q[i]}
    IN  IF diff = {} THEN Len(p) < Len(q)
        ELSE LET i == CHOOSE j \in diff : \A k \in diff : j <= k
             IN  p[i] < q[i]

RECURSIVE InPreorder(_)
InPreorder(S) ==
    IF S = {} THEN <<>>
    ELSE LET first == CHOOSE p \in S : \A q \in S \ {p} : PathBefore(p, q)
         IN  <<first>> \o InPreorder(S \ {first})

MatchPaths(data, key, value) ==
    {p \in PathsOf(data) :
        NodeAt(data, p).t = "object" /\ Get(NodeAt(data, p), key) = Str(value)}

MatchesInPreorder(data, key, value) ==
    LET ps == InPreorder(MatchPaths(data, key, value))
    IN  [i \in 1..Len(ps) |-> NodeAt(data, ps[i])]

TweetKinds == {"TWEET_DETAILS", "TWEET_SEARCH", "USER_LIKES"}
DiscriminatorOf(type) == IF type \in TweetKinds THEN "Tweet" ELSE "User"
TruthyBodies == {Str("ok"), Num(1), Bool(TRUE), TimelineBody}

Received(c) == pc[c] \notin {"idle", "awaiting"} /\ res[c] # NoResponse

(***************************************************************************)
(* C1: every received status other than 200 that is not a key of the       *)
(* status table makes the call fail with the raw code; the response is     *)
(* never returned and no result is produced from it.                       *)
(***************************************************************************)
C1_UnmappedStatusFails ==
    \A c \in Calls :
        (/\ Received(c)
         /\ pc[c] # "settled"
         /\ res[c].status # OK
         /\ res[c].status \notin DOMAIN EHttpStatus)
        => /\ pc[c] = "failed"
           /\ result[c].tag = "error"
           /\ result[c].error.message = ToString(res[c].status)
           /\ checked[c] = NoResponse

(***************************************************************************)
(* C2: handleHTTPError on a status other than 200 that is a key of the     *)
(* status table throws, the reason is the table's entry for the code, and  *)
(* the response is not returned.                                           *)
(***************************************************************************)
C2_MappedStatusFailsWithTableReason ==
    (/\ applied.fn = "handleHTTPError"
     /\ arg.status # OK
     /\ arg.status \in DOMAIN EHttpStatus)
    => /\ ret.threw
       /\ ret.message = EHttpStatus[arg.status]
       /\ ret.value # arg

C2_Witness ==
    /\ applied.fn = "handleHTTPError"
    /\ arg.status = 429
    /\ ret.threw
    /\ ret.message = "TOO_MANY_REQUESTS"

(***************************************************************************)
(* C3: handleHTTPError on status 200 returns the response it was given,    *)
(* status and body unchanged, whatever the body and whether or not 200 is  *)
(* a key of the status table; it never throws.                             *)
(***************************************************************************)
C3_OkPassesThrough ==
    (applied.fn = "handleHTTPError" /\ arg.status = OK)
    => /\ ~ret.threw
       /\ ret.value.status = OK
       /\ ret.value.data = arg.data

C3_Witness ==
    /\ applied.fn = "handleHTTPError"
    /\ arg.status = OK
    /\ OK \in DOMAIN EHttpStatus
    /\ arg.data = Null
    /\ ~ret.threw
    /\ ret.value = arg

(***************************************************************************)
(* C4: post on a 200 response returns true for a non-empty, non-zero body  *)
(* and false for "", 0, null and false; extractData is never run on it.    *)
(***************************************************************************)
C4_PostReturnsBodyTruthiness ==
    \A c \in Calls :
        (pc[c] = "done" /\ invocation[c].op = "post" /\ res[c].status = OK)
        => /\ result[c].tag = "value"
           /\ res[c].data \in TruthyBodies => result[c].flag = TRUE
           /\ res[c].data \in FalsyBodies => result[c].flag = FALSE
           /\ normalizerRuns[c] = <<>>

C4_Witness ==
    \E c, d \in Calls :
        /\ pc[c] = "done" /\ invocation[c].op = "post"
        /\ res[c] = Response(OK, Str("")) /\ result[c] = ReturnedFlag(FALSE)
        /\ pc[d] = "done" /\ invocation[d].op = "post"
        /\ res[d] = Response(OK, TimelineBody) /\ result[d] = ReturnedFlag(TRUE)

(***************************************************************************)
(* C5: extractData runs exactly one extraction on '__typename' per         *)
(* response; its value is 'Tweet' for TWEET_DETAILS, TWEET_SEARCH and      *)
(* USER_LIKES and 'User' for every other kind, whatever the body.          *)
(***************************************************************************)
C5_KindDecidesDiscriminator ==
    applied.fn = "extractData"
    => LET IsEntityCall(x) == x.key = "__typename"
           entityCalls == SelectSeq(ret.calls, IsEntityCall)
       IN  /\ Len(entityCalls) = 1
           /\ entityCalls[1].value =
                 (IF applied.type \in TweetKinds THEN "Tweet" ELSE "User")

C5_Witness ==
    /\ applied.fn = "extractData"
    /\ applied.type = "USER_LIKES"
    /\ arg.data = TimelineBody
    /\ Len(ret.ret.list) = 2
    /\ Get(ret.ret.list[1], "__typename") = Str("Tweet")

(***************************************************************************)
(* C6: the cursor built by extractData is the `value` field of the first   *)
(* node in traversal order whose cursorType is 'Bottom'; later ones and    *)
(* nodes of any other cursorType are ignored; without such a node the      *)
(* cursor is absent.                                                       *)
(***************************************************************************)
C6_CursorIsFirstBottom ==
    applied.fn = "extractData"
    => LET ps == InPreorder(MatchPaths(arg.data, "cursorType", "Bottom"))
       IN  ret.ret.next = (IF Len(ps) = 0 THEN Undefined
                           ELSE Get(NodeAt(arg.data, ps[1]), "value"))

C6_Witness ==
    /\ applied.fn = "extractData"
    /\ arg.data = Node("PZ", <<Node("BY", <<>>), Node("BX", <<>>)>>)
    /\ ret.ret.next = Str("Y")

(***************************************************************************)
(* C7: the entity sequence returned by extractData is the sequence the     *)
(* Tree Extractor returned for the chosen discriminator: same elements,    *)
(* multiplicity and order, nothing added or filtered; empty when nothing   *)
(* matches.                                                                *)
(***************************************************************************)
C7_EntitiesAreExtractorOutput ==
    applied.fn = "extractData"
    => LET d == DiscriminatorOf(applied.type)
       IN  /\ ret.ret.list = findByFilter(arg.data, "__typename", d)
           /\ Len(ret.ret.list) = Cardinality(MatchPaths(arg.data, "__typename", d))
           /\ MatchPaths(arg.data, "__typename", d) = {} => ret.ret.list = <<>>

C7_Witness ==
    /\ applied.fn = "extractData"
    /\ applied.type = "TWEET_SEARCH"
    /\ arg.data = Node("A", <<Node("T2", <<>>), Node("T2", <<>>)>>)
    /\ ret.ret.list = <<Node("T2", <<>>), Node("T2", <<>>)>>

(***************************************************************************)
(* C8: findByFilter returns exactly the object nodes whose field `key`     *)
(* equals `value`, each once, in depth-first pre-order, matches nested in  *)
(* matches included; scalars contribute nothing.                           *)
(***************************************************************************)
C8_ExtractorReturnsMatchesInPreorder ==
    applied.fn = "findByFilter"
    => ret = MatchesInPreorder(arg.data, applied.key, applied.value)

C8_Witness ==
    /\ applied.fn = "findByFilter"
    /\ applied.key = "__typename" /\ applied.value = "Tweet"
    /\ arg.data = Node("T1", <<Node("T2", <<>>), Node("T1", <<>>)>>)
    /\ ret = <<arg.data, Node("T2", <<>>), Node("T1", <<>>)>>

(***************************************************************************)
(* C9: a call invokes the transport at most once, and a failure of the     *)
(* transport or of the classifier is terminal: the call ends with that     *)
(* failure, makes no further transport call, never runs extractData and    *)
(* returns no result.                                                      *)
(***************************************************************************)
C9_SingleAttemptFailureTerminal ==
    [][\A c \in Calls :
          /\ transportCalls'[c] <= 1
          /\ pc'[c] = "failed"
               => result'[c].tag = "error" /\ normalizerRuns'[c] = <<>>
          /\ (pc[c] = "awaiting" /\ pc'[c] = "failed")
               => result'[c].error.source = "transport"
          /\ (pc[c] = "settled" /\ pc'[c] = "failed")
               => result'[c] = Thrown("status", EHttpStatus[res[c].status])
          /\ pc[c] = "failed"
               => /\ pc'[c] = "failed"
                  /\ result'[c] = result[c]
                  /\ transportCalls'[c] = transportCalls[c]]_vars

C9_Witness ==
    \E c, d \in Calls :
        /\ pc[c] = "failed" /\ result[c].error.source = "transport"
        /\ pc[d] = "failed" /\ result[d] = Thrown("status", "NOT_FOUND")
        /\ transportCalls[c] = 1 /\ transportCalls[d] = 1

(***************************************************************************)
(* C10: with concurrent calls, each call's outcome is the outcome it has   *)
(* when run alone on its own kind, arguments and response; each call       *)
(* builds and uses its own request descriptor; the credential is only      *)
(* read.                                                                   *)
(***************************************************************************)
SoloOutcome(inv, r) ==
    LET h == handleHTTPError(r, EHttpStatus)
    IN  IF h.threw THEN Thrown("status", h.message)
        ELSE IF inv.op = "fetch"
        THEN Returned(extractData(r.data, inv.resourceType).ret)
        ELSE ReturnedFlag(ToBoolean(r.data))

C10_CallsIndependent ==
    /\ cred = Credential
    /\ \A c \in Calls :
          /\ pc[c] # "idle"
               => /\ request[c] = Request(invocation[c].resourceType,
                                          invocation[c].args)
                  /\ axiosRequest[c] = AxiosRequestConfig(request[c], Credential)
          /\ (Received(c) /\ pc[c] \in {"done", "failed"})
               => result[c] = SoloOutcome(invocation[c], res[c])
          /\ pc[c] \notin {"done", "failed"} => result[c] = Pending

C10_Witness ==
    \E c, d \in Calls :
        /\ pc[c] = "done" /\ invocation[c].op = "fetch"
        /\ res[c] = Response(OK, TimelineBody)
        /\ Len(result[c].data.list) >= 1
        /\ pc[d] = "done" /\ invocation[d].op = "post"
        /\ res[d] = Response(OK, Num(0))
        /\ result[d] = ReturnedFlag(FALSE)

====
